---- MODULE Spec2Model ----
(***************************************************************************)
(* Health-insurance chaincode (Hyperledger Fabric contract API, Go).       *)
(*                                                                         *)
(* The contract's handlers (CreatePolicy, GetPolicy, SubmitClaim,          *)
(* UpdatePolicy, GetMedicalConditions, logAccessEvent) are modelled as     *)
(* operators that run against a snapshot of the committed ledger and give  *)
(* back the response of the invocation: its error, its return value, the   *)
(* stub calls it made in order, and the writes it issued.  The ledger      *)
(* applies the writes of an invocation together, and only when the handler *)
(* returned no error.                                                      *)
(***************************************************************************)
EXTENDS Integers, Sequences, FiniteSets, TLC

(***************************************************************************)
(* Bounds of the model.                                                    *)
(***************************************************************************)
\* width in bits of the model's signed integer (Go's int, 64 bits on the
\* platforms Fabric runs on, is modelled at this width)
IntBits == 3
\* accepted claims per policy since its creation
MaxClaims == 2

MinInt == -(2 ^ (IntBits - 1))
MaxInt == (2 ^ (IntBits - 1)) - 1

\* Go's int arithmetic: the mathematical result reduced modulo 2^IntBits
Wrap(x) == ((x - MinInt) % (2 ^ IntBits)) + MinInt

(***************************************************************************)
(* Strings.  A Go string is a sequence of bytes; the model keeps it as a   *)
(* sequence of chunks, each either a run of valid UTF-8 text or BadByte,   *)
(* a byte that is not valid UTF-8.                                         *)
(***************************************************************************)
BadByte == "\\xff"
ReplacementChar == "\\ufffd"
EmptyString == << >>

\* encoding/json writes a string with every invalid byte replaced by U+FFFD
JSONString(s) == [i \in DOMAIN s |-> IF s[i] = BadByte THEN ReplacementChar ELSE s[i]]

\* the absent value (a nil byte slice, a nil pointer), and Go's nil error
Nil == [nil |-> TRUE]
NoErr == "nil"

(***************************************************************************)
(* Policy, and its JSON form.                                              *)
(***************************************************************************)
PolicyFields ==
    {"docType", "policyID", "sumAssured", "personName", "dateOfBirth", "gender",
     "startDate", "endDate", "coPay", "coverages", "benefits", "exclusions",
     "claimedTotal", "medicalConditions"}

PolicyStringFields ==
    {"docType", "policyID", "personName", "dateOfBirth", "gender", "startDate",
     "endDate", "coverages", "benefits", "exclusions", "medicalConditions"}

\* the zero value of a Policy struct
ZeroPolicy ==
    [f \in PolicyFields |-> IF f \in PolicyStringFields THEN EmptyString ELSE 0]

\* json.Marshal(policy): an object keyed by the json tags; medicalConditions
\* carries omitempty and is left out when empty
MarshalPolicy(policy) ==
    [f \in {g \in PolicyFields : g # "medicalConditions" \/ policy[g] # EmptyString} |->
        IF f \in PolicyStringFields THEN JSONString(policy[f]) ELSE policy[f]]

\* json.Unmarshal(policyJSON, &policy) into a zero Policy
UnmarshalPolicy(policyJSON) ==
    [f \in PolicyFields |-> IF f \in DOMAIN policyJSON THEN policyJSON[f] ELSE ZeroPolicy[f]]

\* json.Marshal of a map[string]string
MarshalMap(m) == [k \in DOMAIN m |-> JSONString(m[k])]

\* json.Unmarshal into a map[string]string, then m[key] ("" when absent)
MapGet(m, key) == IF key \in DOMAIN m THEN m[key] ELSE EmptyString

\* fmt.Sprintf("%d", n)
SprintfD(n) == << ToString(n) >>

(***************************************************************************)
(* The transaction context: the stub's view of the committed ledger, the   *)
(* client identity, the transaction timestamp, and the stub call (if any)  *)
(* that returns an error in this invocation.                               *)
(***************************************************************************)
Public == "public"
MedicalCollection == "medical-conditions-collection"
ClaimsCollection == "claims-collection"
AccessLogs == "access-logs"
AccessLogCollection == "access-log-collection"
Collections == {MedicalCollection, ClaimsCollection, AccessLogs, AccessLogCollection}

\* An invocation may meet one fault, which names the stub call that returns an
\* error in it: "GetState", "PutState", "GetPrivateData", "GetTxTimestamp",
\* "GetAttributeValue", "GetID", or a collection's name for PutPrivateData into
\* that collection; "none" for no fault.
\* role is what GetAttributeValue("role") gives: [value, found]
Context(world_, private_, fault, txTimestamp, clientID, role) ==
    [world |-> world_, private |-> private_, fault |-> fault,
     txTimestamp |-> txTimestamp, clientID |-> clientID, role |-> role]

Call(api, ns, key, ok) == [api |-> api, ns |-> ns, key |-> key, ok |-> ok]
Write(ns, key, value) == [ns |-> ns, key |-> key, value |-> value]

\* ctx.GetStub().GetState(key): the committed value, nil when absent
GetState(ctx, key) ==
    IF ctx.fault = "GetState"
    THEN [ok |-> FALSE, value |-> Nil, call |-> Call("GetState", Public, key, FALSE)]
    ELSE [ok |-> TRUE, value |-> ctx.world[key], call |-> Call("GetState", Public, key, TRUE)]

\* ctx.GetStub().PutState(key, value): adds to the write set
PutState(ctx, key, value) ==
    IF ctx.fault = "PutState"
    THEN [ok |-> FALSE, writes |-> << >>, call |-> Call("PutState", Public, key, FALSE)]
    ELSE [ok |-> TRUE, writes |-> << Write(Public, key, value) >>,
          call |-> Call("PutState", Public, key, TRUE)]

\* ctx.GetStub().GetPrivateData(collection, key)
GetPrivateData(ctx, collection, key) ==
    IF ctx.fault = "GetPrivateData"
    THEN [ok |-> FALSE, value |-> Nil, call |-> Call("GetPrivateData", collection, key, FALSE)]
    ELSE [ok |-> TRUE, value |-> ctx.private[collection][key],
          call |-> Call("GetPrivateData", collection, key, TRUE)]

\* ctx.GetStub().PutPrivateData(collection, key, value)
PutPrivateData(ctx, collection, key, value) ==
    IF ctx.fault = collection
    THEN [ok |-> FALSE, writes |-> << >>, call |-> Call("PutPrivateData", collection, key, FALSE)]
    ELSE [ok |-> TRUE, writes |-> << Write(collection, key, value) >>,
          call |-> Call("PutPrivateData", collection, key, TRUE)]

\* what an invocation gives back: the handler's error and return value, the
\* ledger calls it made, in order, and the writes it issued
Response(err, ret, calls, writes) ==
    [err |-> err, ret |-> ret, calls |-> calls, writes |-> writes]

(***************************************************************************)
(* CreatePolicy                                                            *)
(***************************************************************************)
\* (mutant of CreatePolicy) startDate and endDate are stored swapped
CreatePolicy_DatesSwapped(ctx, policyID, sumAssured, personName, dateOfBirth, gender, startDate, endDate, coPay, coverages, benefits, exclusions, medicalConditions) ==
    LET policy == [docType |-> << "policy" >>, policyID |-> policyID,
                   sumAssured |-> sumAssured, personName |-> personName,
                   dateOfBirth |-> dateOfBirth, gender |-> gender,
                   startDate |-> endDate, endDate |-> startDate, coPay |-> coPay,
                   coverages |-> coverages, benefits |-> benefits,
                   exclusions |-> exclusions, claimedTotal |-> 0,
                   medicalConditions |-> medicalConditions]
        putPolicy == PutState(ctx, policyID, MarshalPolicy(policy))
        putPrivate == PutPrivateData(ctx, MedicalCollection, policyID,
                                     MarshalMap([medicalConditions |-> medicalConditions]))
    IN  IF ~putPolicy.ok
        THEN Response("failed to store policy", Nil, << putPolicy.call >>, << >>)
        ELSE IF ~putPrivate.ok
        THEN Response("failed to store sensitive data", Nil,
                      << putPolicy.call, putPrivate.call >>, putPolicy.writes)
        ELSE Response(NoErr, Nil, << putPolicy.call, putPrivate.call >>,
                      putPolicy.writes \o putPrivate.writes)

\* CreatePolicy keeping the claimedTotal of a policy already stored under the id
CreatePolicy_KeepsTotal(ctx, policyID, sumAssured, personName, dateOfBirth, gender, startDate, endDate, coPay, coverages, benefits, exclusions, medicalConditions) ==
    LET policy == [docType |-> << "policy" >>, policyID |-> policyID,
                   sumAssured |-> sumAssured, personName |-> personName,
                   dateOfBirth |-> dateOfBirth, gender |-> gender,
                   startDate |-> startDate, endDate |-> endDate, coPay |-> coPay,
                   coverages |-> coverages, benefits |-> benefits,
                   exclusions |-> exclusions, claimedTotal |->
                       IF ctx.world[policyID] = Nil THEN 0
                       ELSE UnmarshalPolicy(ctx.world[policyID]).claimedTotal,
                   medicalConditions |-> medicalConditions]
        policyJSON == MarshalPolicy(policy)
        putPolicy == PutState(ctx, policyID, policyJSON)
        sensitiveData == [medicalConditions |-> medicalConditions]
        privateDataJSON == MarshalMap(sensitiveData)
        putPrivate == PutPrivateData(ctx, MedicalCollection, policyID, privateDataJSON)
    IN  IF ~putPolicy.ok
        THEN Response("failed to store policy", Nil, << putPolicy.call >>, << >>)
        ELSE IF ~putPrivate.ok
        THEN Response("failed to store sensitive data", Nil,
                      << putPolicy.call, putPrivate.call >>, putPolicy.writes)
        ELSE Response(NoErr, Nil, << putPolicy.call, putPrivate.call >>,
                      putPolicy.writes \o putPrivate.writes)

\* CreatePolicy with the error of the private write dropped
CreatePolicy_PrivateErrorDropped(ctx, policyID, sumAssured, personName, dateOfBirth, gender, startDate, endDate, coPay, coverages, benefits, exclusions, medicalConditions) ==
    LET policy == [docType |-> << "policy" >>, policyID |-> policyID,
                   sumAssured |-> sumAssured, personName |-> personName,
                   dateOfBirth |-> dateOfBirth, gender |-> gender,
                   startDate |-> startDate, endDate |-> endDate, coPay |-> coPay,
                   coverages |-> coverages, benefits |-> benefits,
                   exclusions |-> exclusions, claimedTotal |-> 0,
                   medicalConditions |-> medicalConditions]
        policyJSON == MarshalPolicy(policy)
        putPolicy == PutState(ctx, policyID, policyJSON)
        sensitiveData == [medicalConditions |-> medicalConditions]
        privateDataJSON == MarshalMap(sensitiveData)
        putPrivate == PutPrivateData(ctx, MedicalCollection, policyID, privateDataJSON)
    IN  IF ~putPolicy.ok
        THEN Response("failed to store policy", Nil, << putPolicy.call >>, << >>)
        ELSE IF ~putPrivate.ok
        THEN Response(NoErr, Nil,
                      << putPolicy.call, putPrivate.call >>, putPolicy.writes)
        ELSE Response(NoErr, Nil, << putPolicy.call, putPrivate.call >>,
                      putPolicy.writes \o putPrivate.writes)

CreatePolicy(ctx, policyID, sumAssured, personName, dateOfBirth, gender, startDate, endDate, coPay, coverages, benefits, exclusions, medicalConditions) ==
    LET policy == [docType |-> << "policy" >>, policyID |-> policyID,
                   sumAssured |-> sumAssured, personName |-> personName,
                   dateOfBirth |-> dateOfBirth, gender |-> gender,
                   startDate |-> startDate, endDate |-> endDate, coPay |-> coPay,
                   coverages |-> coverages, benefits |-> benefits,
                   exclusions |-> exclusions, claimedTotal |-> 0,
                   medicalConditions |-> medicalConditions]
        policyJSON == MarshalPolicy(policy)
        putPolicy == PutState(ctx, policyID, policyJSON)
        sensitiveData == [medicalConditions |-> medicalConditions]
        privateDataJSON == MarshalMap(sensitiveData)
        putPrivate == PutPrivateData(ctx, MedicalCollection, policyID, privateDataJSON)
    IN  IF ~putPolicy.ok
        THEN Response("failed to store policy", Nil, << putPolicy.call >>, << >>)
        ELSE IF ~putPrivate.ok
        THEN Response("failed to store sensitive data", Nil,
                      << putPolicy.call, putPrivate.call >>, putPolicy.writes)
        ELSE Response(NoErr, Nil, << putPolicy.call, putPrivate.call >>,
                      putPolicy.writes \o putPrivate.writes)

(***************************************************************************)
(* GetPolicy                                                               *)
(***************************************************************************)
GetPolicy(ctx, policyID) ==
    LET get == GetState(ctx, policyID)
    IN  IF ~get.ok
        THEN Response("failed to read from world state", Nil, << get.call >>, << >>)
        ELSE IF get.value = Nil
        THEN Response("policy does not exist", Nil, << get.call >>, << >>)
        ELSE Response(NoErr, UnmarshalPolicy(get.value), << get.call >>, << >>)

(***************************************************************************)
(* SubmitClaim                                                             *)
(***************************************************************************)
\* SubmitClaim without the comparison with sumAssured
SubmitClaim_Unchecked(ctx, policyID, claimAmount, claimReason, hospitalName, dateOfAdmission, dateOfDischarge, treatmentDate, documents) ==
    LET got == GetPolicy(ctx, policyID)
        policy == [got.ret EXCEPT !.claimedTotal = Wrap(@ + claimAmount)]
        claimDetails == [policyID |-> policyID, claimAmount |-> SprintfD(claimAmount),
                         claimReason |-> claimReason, hospitalName |-> hospitalName,
                         dateOfAdmission |-> dateOfAdmission,
                         dateOfDischarge |-> dateOfDischarge,
                         treatmentDate |-> treatmentDate, documents |-> documents,
                         timestamp |-> SprintfD(ctx.txTimestamp)]
        claimDetailsJSON == MarshalMap(claimDetails)
        putClaim == PutPrivateData(ctx, ClaimsCollection, policyID, claimDetailsJSON)
        policyJSON == MarshalPolicy(policy)
        putPolicy == PutState(ctx, policyID, policyJSON)
    IN  IF got.err # NoErr
        THEN got
        ELSE IF ctx.fault = "GetTxTimestamp"
        THEN Response("failed to get transaction timestamp", Nil, got.calls, << >>)
        ELSE IF ~putClaim.ok
        THEN Response("failed to store claim details", Nil,
                      Append(got.calls, putClaim.call), << >>)
        ELSE IF ~putPolicy.ok
        THEN Response("failed to store updated policy", Nil,
                      got.calls \o << putClaim.call, putPolicy.call >>, putClaim.writes)
        ELSE Response(NoErr, Nil, got.calls \o << putClaim.call, putPolicy.call >>,
                      putClaim.writes \o putPolicy.writes)

\* SubmitClaim storing a policy built anew, with the financial fields only
SubmitClaim_PolicyBuiltAnew(ctx, policyID, claimAmount, claimReason, hospitalName, dateOfAdmission, dateOfDischarge, treatmentDate, documents) ==
    LET got == GetPolicy(ctx, policyID)
        policy == [ZeroPolicy EXCEPT !.policyID = got.ret.policyID,
                                      !.sumAssured = got.ret.sumAssured,
                                      !.claimedTotal = Wrap(got.ret.claimedTotal + claimAmount)]
        claimDetails == [policyID |-> policyID, claimAmount |-> SprintfD(claimAmount),
                         claimReason |-> claimReason, hospitalName |-> hospitalName,
                         dateOfAdmission |-> dateOfAdmission,
                         dateOfDischarge |-> dateOfDischarge,
                         treatmentDate |-> treatmentDate, documents |-> documents,
                         timestamp |-> SprintfD(ctx.txTimestamp)]
        claimDetailsJSON == MarshalMap(claimDetails)
        putClaim == PutPrivateData(ctx, ClaimsCollection, policyID, claimDetailsJSON)
        policyJSON == MarshalPolicy(policy)
        putPolicy == PutState(ctx, policyID, policyJSON)
    IN  IF got.err # NoErr
        THEN got
        ELSE IF Wrap(got.ret.claimedTotal + claimAmount) > got.ret.sumAssured
        THEN Response("claim amount exceeds sum assured", Nil, got.calls, << >>)
        ELSE IF ctx.fault = "GetTxTimestamp"
        THEN Response("failed to get transaction timestamp", Nil, got.calls, << >>)
        ELSE IF ~putClaim.ok
        THEN Response("failed to store claim details", Nil,
                      Append(got.calls, putClaim.call), << >>)
        ELSE IF ~putPolicy.ok
        THEN Response("failed to store updated policy", Nil,
                      got.calls \o << putClaim.call, putPolicy.call >>, putClaim.writes)
        ELSE Response(NoErr, Nil, got.calls \o << putClaim.call, putPolicy.call >>,
                      putClaim.writes \o putPolicy.writes)

\* SubmitClaim keeping the claim record already stored under the policy id
SubmitClaim_FirstRecordKept(ctx, policyID, claimAmount, claimReason, hospitalName, dateOfAdmission, dateOfDischarge, treatmentDate, documents) ==
    LET got == GetPolicy(ctx, policyID)
        policy == [got.ret EXCEPT !.claimedTotal = Wrap(@ + claimAmount)]
        claimDetails == [policyID |-> policyID, claimAmount |-> SprintfD(claimAmount),
                         claimReason |-> claimReason, hospitalName |-> hospitalName,
                         dateOfAdmission |-> dateOfAdmission,
                         dateOfDischarge |-> dateOfDischarge,
                         treatmentDate |-> treatmentDate, documents |-> documents,
                         timestamp |-> SprintfD(ctx.txTimestamp)]
        claimDetailsJSON == MarshalMap(claimDetails)
        putClaim == PutPrivateData(ctx, ClaimsCollection, policyID,
                                   IF ctx.private[ClaimsCollection][policyID] = Nil
                                   THEN claimDetailsJSON
                                   ELSE ctx.private[ClaimsCollection][policyID])
        policyJSON == MarshalPolicy(policy)
        putPolicy == PutState(ctx, policyID, policyJSON)
    IN  IF got.err # NoErr
        THEN got
        ELSE IF Wrap(got.ret.claimedTotal + claimAmount) > got.ret.sumAssured
        THEN Response("claim amount exceeds sum assured", Nil, got.calls, << >>)
        ELSE IF ctx.fault = "GetTxTimestamp"
        THEN Response("failed to get transaction timestamp", Nil, got.calls, << >>)
        ELSE IF ~putClaim.ok
        THEN Response("failed to store claim details", Nil,
                      Append(got.calls, putClaim.call), << >>)
        ELSE IF ~putPolicy.ok
        THEN Response("failed to store updated policy", Nil,
                      got.calls \o << putClaim.call, putPolicy.call >>, putClaim.writes)
        ELSE Response(NoErr, Nil, got.calls \o << putClaim.call, putPolicy.call >>,
                      putClaim.writes \o putPolicy.writes)

SubmitClaim(ctx, policyID, claimAmount, claimReason, hospitalName, dateOfAdmission, dateOfDischarge, treatmentDate, documents) ==
    LET got == GetPolicy(ctx, policyID)
        policy == [got.ret EXCEPT !.claimedTotal = Wrap(@ + claimAmount)]
        claimDetails == [policyID |-> policyID, claimAmount |-> SprintfD(claimAmount),
                         claimReason |-> claimReason, hospitalName |-> hospitalName,
                         dateOfAdmission |-> dateOfAdmission,
                         dateOfDischarge |-> dateOfDischarge,
                         treatmentDate |-> treatmentDate, documents |-> documents,
                         timestamp |-> SprintfD(ctx.txTimestamp)]
        claimDetailsJSON == MarshalMap(claimDetails)
        putClaim == PutPrivateData(ctx, ClaimsCollection, policyID, claimDetailsJSON)
        policyJSON == MarshalPolicy(policy)
        putPolicy == PutState(ctx, policyID, policyJSON)
    IN  IF got.err # NoErr
        THEN got
        ELSE IF Wrap(got.ret.claimedTotal + claimAmount) > got.ret.sumAssured
        THEN Response("claim amount exceeds sum assured", Nil, got.calls, << >>)
        ELSE IF ctx.fault = "GetTxTimestamp"
        THEN Response("failed to get transaction timestamp", Nil, got.calls, << >>)
        ELSE IF ~putClaim.ok
        THEN Response("failed to store claim details", Nil,
                      Append(got.calls, putClaim.call), << >>)
        ELSE IF ~putPolicy.ok
        THEN Response("failed to store updated policy", Nil,
                      got.calls \o << putClaim.call, putPolicy.call >>, putClaim.writes)
        ELSE Response(NoErr, Nil, got.calls \o << putClaim.call, putPolicy.call >>,
                      putClaim.writes \o putPolicy.writes)

(***************************************************************************)
(* SubmitClaim as src/main.go has it: the error of PutPrivateData is       *)
(* assigned and overwritten unread, and the timestamp is read with no      *)
(* error path.                                                             *)
(***************************************************************************)
Main_SubmitClaim(ctx, policyID, claimAmount, claimReason, hospitalName, dateOfAdmission, dateOfDischarge, treatementDate, documents) ==
    LET got == GetPolicy(ctx, policyID)
        policy == [got.ret EXCEPT !.claimedTotal = Wrap(@ + claimAmount)]
        claimDetails == [policyID |-> policyID, claimAmount |-> SprintfD(claimAmount),
                         claimReason |-> claimReason, hospitalName |-> hospitalName,
                         dateOfAdmission |-> dateOfAdmission,
                         dateOfDischarge |-> dateOfDischarge,
                         treatmentDate |-> treatementDate, documents |-> documents,
                         timestamp |-> SprintfD(ctx.txTimestamp)]
        claimDetailsJSON == MarshalMap(claimDetails)
        putClaim == PutPrivateData(ctx, ClaimsCollection, policyID, claimDetailsJSON)
        policyJSON == MarshalPolicy(policy)
        putPolicy == PutState(ctx, policyID, policyJSON)
    IN  IF got.err # NoErr
        THEN got
        ELSE IF Wrap(got.ret.claimedTotal + claimAmount) > got.ret.sumAssured
        THEN Response("claim amount exceeds sum assured", Nil, got.calls, << >>)
        ELSE IF ~putPolicy.ok
        THEN Response("PutState failed", Nil,
                      got.calls \o << putClaim.call, putPolicy.call >>, putClaim.writes)
        ELSE Response(NoErr, Nil, got.calls \o << putClaim.call, putPolicy.call >>,
                      putClaim.writes \o putPolicy.writes)

(***************************************************************************)
(* UpdatePolicy                                                            *)
(***************************************************************************)
\* UpdatePolicy storing a policy built anew, its claimedTotal 0
UpdatePolicy_ResetsTotal(ctx, policyID, sumAssured, personName, dateOfBirth, gender, startDate, endDate, coPay, coverages, benefits, exclusions) ==
    LET got == GetPolicy(ctx, policyID)
        policy == [got.ret EXCEPT !.sumAssured = sumAssured,
                                  !.personName = personName,
                                  !.dateOfBirth = dateOfBirth,
                                  !.gender = gender,
                                  !.startDate = startDate,
                                  !.endDate = endDate,
                                  !.coPay = coPay,
                                  !.coverages = coverages,
                                  !.benefits = benefits,
                                  !.exclusions = exclusions,
                                  !.claimedTotal = 0]
        policyJSON == MarshalPolicy(policy)
        putPolicy == PutState(ctx, policyID, policyJSON)
    IN  IF got.err # NoErr
        THEN got
        ELSE IF ~putPolicy.ok
        THEN Response("failed to store updated policy", Nil,
                      Append(got.calls, putPolicy.call), << >>)
        ELSE Response(NoErr, Nil, Append(got.calls, putPolicy.call), putPolicy.writes)

UpdatePolicy(ctx, policyID, sumAssured, personName, dateOfBirth, gender, startDate, endDate, coPay, coverages, benefits, exclusions) ==
    LET got == GetPolicy(ctx, policyID)
        policy == [got.ret EXCEPT !.sumAssured = sumAssured,
                                  !.personName = personName,
                                  !.dateOfBirth = dateOfBirth,
                                  !.gender = gender,
                                  !.startDate = startDate,
                                  !.endDate = endDate,
                                  !.coPay = coPay,
                                  !.coverages = coverages,
                                  !.benefits = benefits,
                                  !.exclusions = exclusions]
        policyJSON == MarshalPolicy(policy)
        putPolicy == PutState(ctx, policyID, policyJSON)
    IN  IF got.err # NoErr
        THEN got
        ELSE IF ~putPolicy.ok
        THEN Response("failed to store updated policy", Nil,
                      Append(got.calls, putPolicy.call), << >>)
        ELSE Response(NoErr, Nil, Append(got.calls, putPolicy.call), putPolicy.writes)

(***************************************************************************)
(* logAccessEvent                                                          *)
(***************************************************************************)
\* (mutant of logAccessEvent) the access event is not stored
logAccessEvent_NotStored(ctx, policyID, action, userID) ==
    IF ctx.fault = "GetTxTimestamp"
    THEN Response("failed to get transaction timestamp", Nil, << >>, << >>)
    ELSE Response(NoErr, Nil, << >>, << >>)

logAccessEvent(ctx, policyID, action, userID) ==
    LET timestamp == SprintfD(ctx.txTimestamp)
        accessLog == [policyID |-> policyID, action |-> action, userID |-> userID,
                      timestamp |-> timestamp]
        logJSON == MarshalMap(accessLog)
        put == PutPrivateData(ctx, AccessLogs, policyID, logJSON)
    IN  IF ctx.fault = "GetTxTimestamp"
        THEN Response("failed to get transaction timestamp", Nil, << >>, << >>)
        ELSE IF ~put.ok
        THEN Response("PutPrivateData failed", Nil, << put.call >>, << >>)
        ELSE Response(NoErr, Nil, << put.call >>, put.writes)

(***************************************************************************)
(* GetMedicalConditions                                                    *)
(***************************************************************************)
\* txTimestamp.AsTime().String(): the date and time of that second, in UTC
TimeString(seconds) == << "UTC time of second", ToString(seconds) >>

\* one step of a handler after another: the calls and writes of both
Then(first, second) ==
    Response(second.err, second.ret, first.calls \o second.calls,
             first.writes \o second.writes)

Pass == Response(NoErr, EmptyString, << >>, << >>)

\* (mutant of RoleCheck) any role attribute that is present is let through
RoleCheck_AnyRole(ctx) ==
    IF ctx.fault = "GetAttributeValue"
    THEN Response("failed to get client role attribute", EmptyString, << >>, << >>)
    ELSE IF ~ctx.role.found
    THEN Response("client role attribute not found", EmptyString, << >>, << >>)
    ELSE IF ctx.fault = "GetID"
    THEN Response("failed to get client ID", EmptyString, << >>, << >>)
    ELSE Pass

\* the role attribute and the client's id
RoleCheck(ctx) ==
    LET role == ctx.role.value
        found == ctx.role.found
    IN  IF ctx.fault = "GetAttributeValue"
        THEN Response("failed to get client role attribute", EmptyString, << >>, << >>)
        ELSE IF ~found
        THEN Response("client role attribute not found", EmptyString, << >>, << >>)
        ELSE IF role # << "doctor" >> /\ role # << "patient" >>
        THEN Response("unauthorized access: only doctors or patients can access medical conditions",
                      EmptyString, << >>, << >>)
        ELSE IF ctx.fault = "GetID"
        THEN Response("failed to get client ID", EmptyString, << >>, << >>)
        ELSE Pass

\* (mutant of PatientCheck) the access event is logged before the ownership
\* check
PatientCheck_LogFirst(ctx, policyID) ==
    LET clientID == ctx.clientID
        got == GetPolicy(ctx, policyID)
        logged == logAccessEvent(ctx, policyID, << "accessed medical conditions" >>, clientID)
    IN  IF ctx.fault = "GetID"
        THEN Response("failed to get client ID", EmptyString, << >>, << >>)
        ELSE IF got.err # NoErr
        THEN Response(got.err, EmptyString, got.calls, << >>)
        ELSE IF logged.err # NoErr
        THEN Response("failed to log access event", EmptyString,
                      got.calls \o logged.calls, << >>)
        ELSE IF got.ret.personName # clientID
        THEN Response("user is not authorised to access medical data for this policy",
                      EmptyString, got.calls \o logged.calls, logged.writes)
        ELSE Response(NoErr, EmptyString, got.calls \o logged.calls, logged.writes)

\* (mutant of PatientCheck) the personName is not compared with the caller
PatientCheck_AnyPatient(ctx, policyID) ==
    LET clientID == ctx.clientID
        got == GetPolicy(ctx, policyID)
        logged == logAccessEvent(ctx, policyID, << "accessed medical conditions" >>, clientID)
    IN  IF ctx.fault = "GetID"
        THEN Response("failed to get client ID", EmptyString, << >>, << >>)
        ELSE IF got.err # NoErr
        THEN Response(got.err, EmptyString, got.calls, << >>)
        ELSE IF logged.err # NoErr
        THEN Response("failed to log access event", EmptyString,
                      got.calls \o logged.calls, << >>)
        ELSE Response(NoErr, EmptyString, got.calls \o logged.calls, logged.writes)

\* the patient branch: the ownership check, then the access event
PatientCheck(ctx, policyID) ==
    LET clientID == ctx.clientID
        got == GetPolicy(ctx, policyID)
        logged == logAccessEvent(ctx, policyID, << "accessed medical conditions" >>, clientID)
    IN  IF ctx.fault = "GetID"
        THEN Response("failed to get client ID", EmptyString, << >>, << >>)
        ELSE IF got.err # NoErr
        THEN Response(got.err, EmptyString, got.calls, << >>)
        ELSE IF got.ret.personName # clientID
        THEN Response("user is not authorised to access medical data for this policy",
                      EmptyString, got.calls, << >>)
        ELSE IF logged.err # NoErr
        THEN Response("failed to log access event", EmptyString,
                      got.calls \o logged.calls, << >>)
        ELSE Response(NoErr, EmptyString, got.calls \o logged.calls, logged.writes)

\* (mutant of LogAndRead) the error of the access log write is dropped
LogAndRead_IgnoreLogError(ctx, policyID) ==
    LET logEntry == [userID |-> ctx.clientID, role |-> ctx.role.value,
                     policyID |-> policyID, timestamp |-> TimeString(ctx.txTimestamp),
                     accessGranted |-> << "true" >>]
        putLog == PutPrivateData(ctx, AccessLogCollection, policyID, MarshalMap(logEntry))
        getPrivate == GetPrivateData(ctx, MedicalCollection, policyID)
        calls == << putLog.call, getPrivate.call >>
    IN  IF ctx.fault = "GetTxTimestamp"
        THEN Response("failed to get transaction timestamp", EmptyString, << >>, << >>)
        ELSE IF ~getPrivate.ok
        THEN Response("failed to read from private data collection", EmptyString,
                      calls, putLog.writes)
        ELSE IF getPrivate.value = Nil
        THEN Response("no sensitive data available for the policy", EmptyString,
                      calls, putLog.writes)
        ELSE Response(NoErr, MapGet(getPrivate.value, "medicalConditions"), calls,
                      putLog.writes)

\* the access log entry, then the read of the private collection
LogAndRead(ctx, policyID) ==
    LET role == ctx.role.value
        clientID == ctx.clientID
        timestampStr == TimeString(ctx.txTimestamp)
        logEntry == [userID |-> clientID, role |-> role, policyID |-> policyID,
                     timestamp |-> timestampStr, accessGranted |-> << "true" >>]
        logEntryJSON == MarshalMap(logEntry)
        putLog == PutPrivateData(ctx, AccessLogCollection, policyID, logEntryJSON)
        getPrivate == GetPrivateData(ctx, MedicalCollection, policyID)
        calls == << putLog.call, getPrivate.call >>
    IN  IF ctx.fault = "GetTxTimestamp"
        THEN Response("failed to get transaction timestamp", EmptyString, << >>, << >>)
        ELSE IF ~putLog.ok
        THEN Response("failed to store access log", EmptyString, << putLog.call >>, << >>)
        ELSE IF ~getPrivate.ok
        THEN Response("failed to read from private data collection", EmptyString,
                      calls, putLog.writes)
        ELSE IF getPrivate.value = Nil
        THEN Response("no sensitive data available for the policy", EmptyString,
                      calls, putLog.writes)
        ELSE Response(NoErr, MapGet(getPrivate.value, "medicalConditions"), calls,
                      putLog.writes)

GetMedicalConditions(ctx, policyID) ==
    LET identified == RoleCheck(ctx)
        checked == IF ctx.role.value = << "patient" >>
                   THEN PatientCheck(ctx, policyID)
                   ELSE Pass
    IN  IF identified.err # NoErr
        THEN identified
        ELSE IF checked.err # NoErr
        THEN checked
        ELSE Then(checked, LogAndRead(ctx, policyID))

(***************************************************************************)
(* The ledger.                                                             *)
(*   world    the public world state: policy id -> policy JSON, or Nil     *)
(*   private  the private data collections: collection -> id -> JSON/Nil   *)
(*   last     the latest invocation: the operation, its arguments and its  *)
(*            response                                                     *)
(*   hist     per policy id, what has been committed since its latest      *)
(*            CreatePolicy (history, read by the properties only)          *)
(*   pending  the transactions that were simulated and are not yet         *)
(*            ordered: what each read and wrote, and how it ended          *)
(***************************************************************************)
VARIABLES world, private, last, hist, pending

vars == << world, private, last, hist, pending >>

PolicyIDs == { << "P1" >>, << "P2" >> }  \* the keys of the ledger
TxIDs == {"tx1", "tx2"}                   \* the transactions that may be in flight

NoHistory ==
    [createdWith |-> Nil, medicalGiven |-> EmptyString, acceptedSum |-> 0,
     acceptedCount |-> 0, updated |-> FALSE]

Init ==
    /\ world = [p \in PolicyIDs |-> Nil]
    /\ private = [c \in Collections |-> [p \in PolicyIDs |-> Nil]]
    /\ last = [op |-> "none", policyID |-> EmptyString, args |-> Nil,
               resp |-> Response(NoErr, Nil, << >>, << >>)]
    /\ hist = [p \in PolicyIDs |-> NoHistory]
    /\ pending = [t \in TxIDs |-> Nil]

\* the ledger after the writes of one invocation, applied in order
RECURSIVE ApplyWorld(_, _)
ApplyWorld(w, writes) ==
    IF writes = << >> THEN w
    ELSE LET wr == Head(writes)
         IN  ApplyWorld(IF wr.ns = Public THEN [w EXCEPT ![wr.key] = wr.value] ELSE w,
                        Tail(writes))

RECURSIVE ApplyPrivate(_, _)
ApplyPrivate(pd, writes) ==
    IF writes = << >> THEN pd
    ELSE LET wr == Head(writes)
         IN  ApplyPrivate(IF wr.ns # Public THEN [pd EXCEPT ![wr.ns][wr.key] = wr.value] ELSE pd,
                          Tail(writes))

\* the keys a response read, and those it wrote
ReadSet(resp) ==
    {<< resp.calls[i].ns, resp.calls[i].key >> :
        i \in {j \in DOMAIN resp.calls :
                  resp.calls[j].ok /\ resp.calls[j].api \in {"GetState", "GetPrivateData"}}}

WriteSet(resp) == {<< resp.writes[i].ns, resp.writes[i].key >> : i \in DOMAIN resp.writes}

\* the transaction was simulated and is neither committed nor aborted yet
InFlight(pend, t) == IF pend[t] = Nil THEN FALSE ELSE pend[t].status = "simulated"

\* a commit makes stale every simulated transaction that read a key it writes
Overtaken(pend, t, writes) ==
    IF InFlight(pend, t) /\ pend[t].reads \cap writes # {}
    THEN [pend[t] EXCEPT !.stale = TRUE]
    ELSE pend[t]

\* An invocation ends: the response goes to the caller, and the writes are
\* committed, all of them, when the handler returned no error; none otherwise.
Invoke(op, policyID, args, resp) ==
    /\ last' = [op |-> op, policyID |-> policyID, args |-> args, resp |-> resp]
    /\ world' = IF resp.err = NoErr THEN ApplyWorld(world, resp.writes) ELSE world
    /\ private' = IF resp.err = NoErr THEN ApplyPrivate(private, resp.writes) ELSE private
    /\ pending' = IF resp.err = NoErr
                  THEN [t \in TxIDs |-> Overtaken(pending, t, WriteSet(resp))]
                  ELSE pending

(***************************************************************************)
(* The inputs the invocations draw from.                                   *)
(***************************************************************************)
Alice == << "alice" >>
Bob == << "bob" >>
Doctor == [value |-> << "doctor" >>, found |-> TRUE]
Patient == [value |-> << "patient" >>, found |-> TRUE]
Insurer == [value |-> << "insurer" >>, found |-> TRUE]
NoRole == [value |-> EmptyString, found |-> FALSE]
P1 == << "P1" >>
P2 == << "P2" >>

\* the remaining public fields of a policy, two settings of them
Profile1 ==
      [dateOfBirth |-> << "1990-01-01" >>, gender |-> << "F" >>,
       startDate |-> << "2024-01-01" >>, endDate |-> << "2024-12-31" >>,
       coPay |-> 1, coverages |-> << "inpatient" >>, benefits |-> << "ambulance" >>,
       exclusions |-> << "cosmetic" >>]
Profile2 ==
      [dateOfBirth |-> << "1985-05-05" >>, gender |-> << "M" >>,
       startDate |-> << "2025-01-01" >>, endDate |-> << "2025-12-31" >>,
       coPay |-> 2, coverages |-> << "outpatient" >>, benefits |-> << "dental" >>,
       exclusions |-> << "none" >>]

\* the descriptive arguments of a claim, two settings of them
Details1 ==
      [claimReason |-> << "surgery" >>, hospitalName |-> << "general" >>,
       dateOfAdmission |-> << "2024-03-01" >>, dateOfDischarge |-> << "2024-03-05" >>,
       treatmentDate |-> << "2024-03-02" >>, documents |-> << "bill" >>]
Details2 ==
      [claimReason |-> << "fracture" >>, hospitalName |-> << "city" >>,
       dateOfAdmission |-> << "2024-06-01" >>, dateOfDischarge |-> << "2024-06-02" >>,
       treatmentDate |-> << "2024-06-01" >>, documents |-> << "x-ray" >>]

\* the identity and timestamp of an invocation that reads neither
Anonymous == [value |-> EmptyString, found |-> FALSE]

(***************************************************************************)
(* The invocations, one transaction each.                                  *)
(***************************************************************************)
TxCreatePolicy(fault, policyID, sumAssured, personName, profile, medicalConditions) ==
    LET ctx == Context(world, private, fault, 1, EmptyString, Anonymous)
        args == [sumAssured |-> sumAssured, personName |-> personName,
                 profile |-> profile, medicalConditions |-> medicalConditions,
                 fault |-> fault]
        resp == CreatePolicy(ctx, policyID, sumAssured, personName, profile.dateOfBirth,
                             profile.gender, profile.startDate, profile.endDate,
                             profile.coPay, profile.coverages, profile.benefits,
                             profile.exclusions, medicalConditions)
    IN  /\ Invoke("CreatePolicy", policyID, args, resp)
        /\ hist' = IF resp.err = NoErr
                   THEN [hist EXCEPT ![policyID] =
                            [createdWith |-> [sumAssured |-> sumAssured,
                                              personName |-> personName,
                                              profile |-> profile],
                             medicalGiven |-> medicalConditions,
                             acceptedSum |-> 0, acceptedCount |-> 0, updated |-> FALSE]]
                   ELSE hist

TxGetPolicy(fault, policyID) ==
    LET ctx == Context(world, private, fault, 1, EmptyString, Anonymous)
        resp == GetPolicy(ctx, policyID)
    IN  /\ Invoke("GetPolicy", policyID, [fault |-> fault], resp)
        /\ UNCHANGED hist

TxSubmitClaim(fault, txTimestamp, policyID, claimAmount, details) ==
    LET ctx == Context(world, private, fault, txTimestamp, EmptyString, Anonymous)
        args == [claimAmount |-> claimAmount, details |-> details,
                 txTimestamp |-> txTimestamp, fault |-> fault]
        resp == SubmitClaim(ctx, policyID, claimAmount, details.claimReason,
                            details.hospitalName, details.dateOfAdmission,
                            details.dateOfDischarge, details.treatmentDate,
                            details.documents)
    IN  /\ hist[policyID].acceptedCount < MaxClaims
        /\ Invoke("SubmitClaim", policyID, args, resp)
        /\ hist' = IF resp.err = NoErr
                   THEN [hist EXCEPT ![policyID].createdWith = Nil,
                                     ![policyID].acceptedSum = @ + claimAmount,
                                     ![policyID].acceptedCount = @ + 1]
                   ELSE hist

TxMain_SubmitClaim(fault, txTimestamp, policyID, claimAmount, details) ==
    LET ctx == Context(world, private, fault, txTimestamp, EmptyString, Anonymous)
        args == [claimAmount |-> claimAmount, details |-> details,
                 txTimestamp |-> txTimestamp, fault |-> fault]
        resp == Main_SubmitClaim(ctx, policyID, claimAmount, details.claimReason,
                                 details.hospitalName, details.dateOfAdmission,
                                 details.dateOfDischarge, details.treatmentDate,
                                 details.documents)
    IN  /\ hist[policyID].acceptedCount < MaxClaims
        /\ Invoke("SubmitClaim", policyID, args, resp)
        /\ hist' = IF resp.err = NoErr
                   THEN [hist EXCEPT ![policyID].createdWith = Nil,
                                     ![policyID].acceptedSum = @ + claimAmount,
                                     ![policyID].acceptedCount = @ + 1]
                   ELSE hist

TxUpdatePolicy(fault, policyID, sumAssured, personName, profile) ==
    LET ctx == Context(world, private, fault, 1, EmptyString, Anonymous)
        args == [sumAssured |-> sumAssured, personName |-> personName,
                 profile |-> profile, fault |-> fault]
        resp == UpdatePolicy(ctx, policyID, sumAssured, personName, profile.dateOfBirth,
                             profile.gender, profile.startDate, profile.endDate,
                             profile.coPay, profile.coverages, profile.benefits,
                             profile.exclusions)
    IN  /\ Invoke("UpdatePolicy", policyID, args, resp)
        /\ hist' = IF resp.err = NoErr
                   THEN [hist EXCEPT ![policyID].createdWith = Nil,
                                     ![policyID].updated = TRUE]
                   ELSE hist

TxGetMedicalConditions(fault, txTimestamp, clientID, role, policyID) ==
    LET ctx == Context(world, private, fault, txTimestamp, clientID, role)
        args == [clientID |-> clientID, role |-> role, txTimestamp |-> txTimestamp,
                 fault |-> fault]
        resp == GetMedicalConditions(ctx, policyID)
    IN  /\ Invoke("GetMedicalConditions", policyID, args, resp)
        /\ UNCHANGED hist

(***************************************************************************)
(* Concurrent claims.  SubmitClaim is simulated against the committed      *)
(* ledger (SimulateSubmitClaim) and its writes are committed later         *)
(* (Commit), unless a key it read was written in between.                  *)
(***************************************************************************)
\* the transactions in flight that read, in the version a new simulation
\* reads it, a key the new simulation reads
SameVersion(pend, t, reads) ==
    {u \in TxIDs \ {t} :
        IF InFlight(pend, u) THEN ~pend[u].stale /\ pend[u].reads \cap reads # {}
        ELSE FALSE}

SimulateSubmitClaim(t, txTimestamp, policyID, claimAmount, details) ==
    LET ctx == Context(world, private, "none", txTimestamp, EmptyString, Anonymous)
        args == [claimAmount |-> claimAmount, details |-> details,
                 txTimestamp |-> txTimestamp, fault |-> "none"]
        resp == SubmitClaim(ctx, policyID, claimAmount, details.claimReason,
                            details.hospitalName, details.dateOfAdmission,
                            details.dateOfDischarge, details.treatmentDate,
                            details.documents)
    IN  /\ ~InFlight(pending, t)
        /\ hist[policyID].acceptedCount < MaxClaims
        /\ last' = [op |-> "SubmitClaim", policyID |-> policyID, args |-> args,
                    resp |-> resp]
        /\ pending' = [u \in TxIDs |->
                          IF u = t
                          THEN IF resp.err = NoErr
                               THEN [status |-> "simulated", policyID |-> policyID,
                                     claimAmount |-> claimAmount, resp |-> resp,
                                     reads |-> ReadSet(resp),
                                     snapshot |-> world[policyID],
                                     rivals |-> SameVersion(pending, t, ReadSet(resp)),
                                     stale |-> FALSE]
                               ELSE Nil
                          ELSE IF pending[u] = Nil THEN Nil
                          ELSE IF resp.err = NoErr
                                  /\ u \in SameVersion(pending, t, ReadSet(resp))
                               THEN [pending[u] EXCEPT !.rivals = @ \cup {t}]
                               ELSE [pending[u] EXCEPT !.rivals = @ \ {t}]]
        /\ UNCHANGED << world, private, hist >>

Commit(t) ==
    /\ InFlight(pending, t)
    /\ IF pending[t].stale
       THEN /\ pending' = [pending EXCEPT ![t].status = "aborted"]
            /\ UNCHANGED << world, private, hist, last >>
       ELSE /\ world' = ApplyWorld(world, pending[t].resp.writes)
            /\ private' = ApplyPrivate(private, pending[t].resp.writes)
            /\ pending' = [u \in TxIDs |->
                              IF u = t THEN [pending[t] EXCEPT !.status = "committed"]
                              ELSE Overtaken(pending, u, WriteSet(pending[t].resp))]
            /\ hist' = [hist EXCEPT ![pending[t].policyID].createdWith = Nil,
                                    ![pending[t].policyID].acceptedSum =
                                        @ + pending[t].claimAmount,
                                    ![pending[t].policyID].acceptedCount = @ + 1]
            /\ UNCHANGED last

\* every invocation with its inputs drawn from the universe U; U.faults gives,
\* for each operation, the faults its invocations may meet
NextOver(U) ==
    \/ \E f \in U.faults.CreatePolicy, p \in U.ids, s \in U.sums, n \in U.names,
          pr \in U.profiles, m \in U.medical :
            TxCreatePolicy(f, p, s, n, pr, m)
    \/ \E f \in U.faults.GetPolicy, p \in U.ids : TxGetPolicy(f, p)
    \/ \E f \in U.faults.SubmitClaim, t \in U.times, p \in U.ids, a \in U.amounts,
          d \in U.details :
            TxSubmitClaim(f, t, p, a, d)
    \/ \E f \in U.faults.UpdatePolicy, p \in U.ids, s \in U.sums, n \in U.names,
          pr \in U.profiles :
            TxUpdatePolicy(f, p, s, n, pr)
    \/ \E f \in U.faults.GetMedicalConditions, t \in U.times, c \in U.clients,
          r \in U.roles, p \in U.ids :
            TxGetMedicalConditions(f, t, c, r, p)

\* claim processing on one policy: amounts that fit, that exceed the cover,
\* and that overflow the integer
ClaimInputs ==
    [ids |-> {P1}, sums |-> {2, MaxInt}, amounts |-> {-1, 2, MaxInt},
     names |-> {Alice}, clients |-> {Alice}, roles |-> {Doctor},
     profiles |-> {Profile1}, medical |-> { << "asthma" >> },
     details |-> {Details1}, times |-> {1},
     faults |-> [CreatePolicy |-> {"none"},
                 GetPolicy |-> {"none"},
                 SubmitClaim |-> {"none", "GetState", "GetTxTimestamp", "PutState",
                                 ClaimsCollection},
                 UpdatePolicy |-> {"none", "PutState"},
                 GetMedicalConditions |-> {"none"}]]

\* reading the medical conditions: owners and strangers, every role, every
\* stub call of the gate failing
AccessInputs ==
    [ids |-> {P1}, sums |-> {0}, amounts |-> {1},
     names |-> {Alice, Bob}, clients |-> {Alice, Bob},
     roles |-> {Doctor, Patient, Insurer, NoRole},
     profiles |-> {Profile1},
     medical |-> { << "asthma" >>, << "diabetes", BadByte >>, EmptyString },
     details |-> {Details1}, times |-> {1},
     faults |-> [CreatePolicy |-> {"none"},
                 GetPolicy |-> {"none", "GetState"},
                 SubmitClaim |-> {"none"},
                 UpdatePolicy |-> {"none"},
                 GetMedicalConditions |->
                     {"none", "GetState", "GetPrivateData", "GetTxTimestamp",
                      "GetAttributeValue", "GetID", AccessLogs, AccessLogCollection}]]

\* policy records: every field in two settings, names with bytes that are
\* not UTF-8, every write of CreatePolicy and UpdatePolicy failing
PolicyInputs ==
    [ids |-> {P1}, sums |-> {-1, 2}, amounts |-> {1},
     names |-> {Alice, << "bob", BadByte >>}, clients |-> {Alice},
     roles |-> {Doctor}, profiles |-> {Profile1, Profile2},
     medical |-> { << "asthma" >> },
     details |-> {Details1}, times |-> {1},
     faults |-> [CreatePolicy |-> {"none", MedicalCollection},
                 GetPolicy |-> {"none", "GetState"},
                 SubmitClaim |-> {"none"},
                 UpdatePolicy |-> {"none", "PutState"},
                 GetMedicalConditions |-> {"none"}]]

\* two policies side by side
TwoPolicyInputs ==
    [ids |-> {P1, P2}, sums |-> {2}, amounts |-> {2},
     names |-> {Alice, << "bob", BadByte >>}, clients |-> {Alice}, roles |-> {Doctor},
     profiles |-> {Profile1},
     medical |-> { << "asthma" >>, << "diabetes" >> },
     details |-> {Details1}, times |-> {1},
     faults |-> [CreatePolicy |-> {"none"},
                 GetPolicy |-> {"none"},
                 SubmitClaim |-> {"none"},
                 UpdatePolicy |-> {"none"},
                 GetMedicalConditions |-> {"none"}]]

\* two claims in flight on one policy: each fits, both together may not
ConcurrentInputs ==
    [ids |-> {P1}, sums |-> {1, 2}, amounts |-> {0, 1},
     names |-> {Alice}, clients |-> {Alice}, roles |-> {Doctor},
     profiles |-> {Profile1}, medical |-> { << "asthma" >> },
     details |-> {Details1, Details2}, times |-> {1},
     faults |-> [CreatePolicy |-> {"none"}]]

Next == NextOver(ClaimInputs)

Spec == Init /\ [][Next]_vars

NextAccess == NextOver(AccessInputs)

SpecAccess == Init /\ [][NextAccess]_vars

NextPolicy == NextOver(PolicyInputs)

SpecPolicy == Init /\ [][NextPolicy]_vars

NextTwo == NextOver(TwoPolicyInputs)

SpecTwo == Init /\ [][NextTwo]_vars

NextConcurrent ==
    LET U == ConcurrentInputs
    IN  \/ \E f \in U.faults.CreatePolicy, p \in U.ids, s \in U.sums, n \in U.names,
              pr \in U.profiles, m \in U.medical :
                TxCreatePolicy(f, p, s, n, pr, m)
        \/ \E t \in TxIDs, ts \in U.times, p \in U.ids, a \in U.amounts,
              d \in U.details :
                SimulateSubmitClaim(t, ts, p, a, d)
        \/ \E t \in TxIDs : Commit(t)

SpecConcurrent == Init /\ [][NextConcurrent]_vars

\* the contract of src/main.go processing claims, either write failing
NextMain ==
    LET U == ClaimInputs
    IN  \/ \E f \in U.faults.CreatePolicy, p \in U.ids, s \in U.sums, n \in U.names,
              pr \in U.profiles, m \in U.medical :
                TxCreatePolicy(f, p, s, n, pr, m)
        \/ \E f \in U.faults.GetPolicy, p \in U.ids : TxGetPolicy(f, p)
        \/ \E f \in {"none", "GetState", "PutState", ClaimsCollection}, t \in U.times,
              p \in U.ids, a \in U.amounts, d \in U.details :
                TxMain_SubmitClaim(f, t, p, a, d)

SpecMain == Init /\ [][NextMain]_vars

(***************************************************************************)
(* Reading the ledger.                                                     *)
(***************************************************************************)
Exists(p) == world[p] # Nil
StoredPolicy(p) == UnmarshalPolicy(world[p])

\* the calls of a response that write, and those that touch the ledger at all
Puts(resp) == {i \in DOMAIN resp.calls : resp.calls[i].api \in {"PutState", "PutPrivateData"}}

(***************************************************************************)
(* C1  After CreatePolicy and then only SubmitClaim calls that succeeded,  *)
(* the stored claimedTotal is the sum of the accepted claimAmounts and is  *)
(* at most sumAssured.                                                     *)
(***************************************************************************)
C1_ClaimedTotalIsSumOfAccepted ==
    \A p \in PolicyIDs :
        (Exists(p) /\ ~hist[p].updated /\ hist[p].acceptedCount >= 1) =>
            /\ StoredPolicy(p).claimedTotal = hist[p].acceptedSum
            /\ StoredPolicy(p).claimedTotal <= StoredPolicy(p).sumAssured

(***************************************************************************)
(* C2  A SubmitClaim on an existing policy with claimedTotal + claimAmount *)
(* above sumAssured returns an error and leaves the policy, the public     *)
(* namespace and the claims namespace as they were; the same call made     *)
(* again gets the same response.                                           *)
(***************************************************************************)
SameCallAgain ==
    SubmitClaim(Context(world', private', last'.args.fault, last'.args.txTimestamp,
                        EmptyString, Anonymous),
                last'.policyID, last'.args.claimAmount, last'.args.details.claimReason,
                last'.args.details.hospitalName, last'.args.details.dateOfAdmission,
                last'.args.details.dateOfDischarge, last'.args.details.treatmentDate,
                last'.args.details.documents)

C2_ExceedingClaimRejectedUnchanged ==
    [][(/\ last'.op = "SubmitClaim"
        /\ Exists(last'.policyID)
        /\ StoredPolicy(last'.policyID).claimedTotal + last'.args.claimAmount
              > StoredPolicy(last'.policyID).sumAssured)
       => (/\ last'.resp.err # NoErr
           /\ Puts(last'.resp) = {}
           /\ world' = world
           /\ private' = private
           /\ SameCallAgain = last'.resp)]_vars

(***************************************************************************)
(* C3  Of two SubmitClaim transactions simulated on the same version of a  *)
(* policy, at most one commits and the other is aborted; and whatever has  *)
(* committed, claimedTotal is the sum of the committed claims and is at    *)
(* most sumAssured.                                                        *)
(***************************************************************************)
Committed(t) == IF pending[t] = Nil THEN FALSE ELSE pending[t].status = "committed"
Aborted(t) == IF pending[t] = Nil THEN FALSE ELSE pending[t].status = "aborted"

C3_ConcurrentClaimsOneCommits ==
    /\ \A t \in TxIDs : Committed(t) =>
           \A u \in pending[t].rivals :
               /\ ~Committed(u)
               /\ InFlight(pending, u) => pending[u].stale
    /\ \A p \in PolicyIDs : Exists(p) =>
           /\ StoredPolicy(p).claimedTotal = hist[p].acceptedSum
           /\ StoredPolicy(p).claimedTotal <= StoredPolicy(p).sumAssured

\* each of two claims fits alone, both together do not; one committed, the
\* other was aborted
C3_Witness ==
    \E t \in TxIDs : Committed(t) /\ \E u \in pending[t].rivals :
        LET seen == UnmarshalPolicy(pending[t].snapshot)
        IN  /\ Aborted(u)
            /\ pending[u].snapshot = pending[t].snapshot
            /\ seen.claimedTotal + pending[t].claimAmount <= seen.sumAssured
            /\ seen.claimedTotal + pending[u].claimAmount <= seen.sumAssured
            /\ seen.claimedTotal + pending[t].claimAmount + pending[u].claimAmount
                   > seen.sumAssured
            /\ Exists(pending[t].policyID)
            /\ StoredPolicy(pending[t].policyID).claimedTotal
                   = seen.claimedTotal + pending[t].claimAmount

(***************************************************************************)
(* C10  Every policy that has had a committed claim has claimedTotal at    *)
(* most sumAssured, whatever CreatePolicy, UpdatePolicy, SubmitClaim and   *)
(* GetMedicalConditions calls were made.                                   *)
(***************************************************************************)
HasCommittedClaim(p) == private[ClaimsCollection][p] # Nil

C10_ClaimedWithinSumAssured ==
    \A p \in PolicyIDs :
        (Exists(p) /\ HasCommittedClaim(p)) =>
            StoredPolicy(p).claimedTotal <= StoredPolicy(p).sumAssured

(***************************************************************************)
(* Reading the latest invocation.                                          *)
(***************************************************************************)
IsRead == last.op = "GetMedicalConditions"
IsRead_ == last'.op = "GetMedicalConditions"

NotAuthorised == "user is not authorised to access medical data for this policy"
RoleUnauthorized ==
    "unauthorized access: only doctors or patients can access medical conditions"
RoleMissing == "client role attribute not found"

\* the writes of a response into a namespace
WritesTo(resp, ns) == {i \in DOMAIN resp.writes : resp.writes[i].ns = ns}

(***************************************************************************)
(* C4  GetMedicalConditions by a patient on a policy whose personName is   *)
(* not the caller's id fails as unauthorised, returns no text and writes   *)
(* nothing, to the access logs or anywhere else.                           *)
(***************************************************************************)
C4_StrangerDeniedWithoutTrace ==
    [][(/\ IsRead_
        /\ last'.args.role = Patient
        /\ Exists(last'.policyID)
        /\ StoredPolicy(last'.policyID).personName # last'.args.clientID)
       => (/\ last'.resp.err # NoErr
           /\ last'.args.fault = "none" => last'.resp.err = NotAuthorised
           /\ last'.resp.ret = EmptyString
           /\ Puts(last'.resp) = {}
           /\ last'.resp.writes = << >>
           /\ world' = world
           /\ private' = private)]_vars

C4_Witness ==
    /\ IsRead
    /\ last.args.role = Patient
    /\ Exists(last.policyID)
    /\ StoredPolicy(last.policyID).personName # last.args.clientID
    /\ last.resp.err = NotAuthorised
    /\ private[MedicalCollection][last.policyID] # Nil

LogWritten(resp, i) ==
    /\ resp.calls[i] = Call("PutPrivateData", AccessLogCollection, last.policyID, TRUE)
    /\ \E w \in WritesTo(resp, AccessLogCollection) :
          /\ resp.writes[w].key = last.policyID
          /\ resp.writes[w].value.userID = last.args.clientID
          /\ resp.writes[w].value.policyID = last.policyID

C7_AuditBeforeDisclosure ==
    IsRead =>
        /\ \A i \in DOMAIN last.resp.calls :
              (last.resp.calls[i].api = "GetPrivateData"
                  /\ last.resp.calls[i].ns = MedicalCollection)
              => \E j \in 1 .. (i - 1) : LogWritten(last.resp, j)
        /\ (last.resp.err = NoErr \/ last.resp.ret # EmptyString)
              => \E j \in DOMAIN last.resp.calls :
                    /\ LogWritten(last.resp, j)
                    /\ \E i \in (j + 1) .. Len(last.resp.calls) :
                          last.resp.calls[i] =
                              Call("GetPrivateData", MedicalCollection, last.policyID, TRUE)
        /\ (\E i \in DOMAIN last.resp.calls :
                last.resp.calls[i] =
                    Call("PutPrivateData", AccessLogCollection, last.policyID, FALSE))
              => (last.resp.err # NoErr /\ last.resp.ret = EmptyString)

\* the text was disclosed, and, in another invocation, the log write failed
C7_Witness ==
    /\ IsRead
    /\ last.resp.err = NoErr
    /\ last.resp.ret # EmptyString
    /\ Len(last.resp.calls) >= 2

C7_WitnessLogFailed ==
    /\ IsRead
    /\ last.args.fault = AccessLogCollection
    /\ last.resp.err = "failed to store access log"
    /\ private[MedicalCollection][last.policyID] # Nil

(***************************************************************************)
(* Text as a reader of the ledger sees it: valid UTF-8 comes back as it    *)
(* was given, every other byte as U+FFFD.                                  *)
(***************************************************************************)
ValidUTF8(text) == \A i \in DOMAIN text : text[i] # BadByte

AsStored(text) ==
    [i \in 1 .. Len(text) |-> IF text[i] = BadByte THEN ReplacementChar ELSE text[i]]

(***************************************************************************)
(* C5  GetMedicalConditions on a created policy, by the patient named in   *)
(* it or by a doctor, succeeds, returns the medicalConditions text given   *)
(* to CreatePolicy, and results in exactly one new AccessLogEntry, whose   *)
(* accessGranted is "true".                                                *)
(***************************************************************************)
Authorised_ ==
    /\ IsRead_
    /\ last'.args.fault = "none"
    /\ Exists(last'.policyID)
    /\ \/ last'.args.role = Doctor
       \/ /\ last'.args.role = Patient
          /\ StoredPolicy(last'.policyID).personName = last'.args.clientID

LogWrites(resp) == WritesTo(resp, AccessLogs) \cup WritesTo(resp, AccessLogCollection)

PublicFields == PolicyFields \ {"medicalConditions"}

SamePublicFields(p, q) ==
    \A f \in PublicFields \ {"policyID"} : StoredPolicy(p)[f] = StoredPolicy(q)[f]

ReadPolicy(p) == GetPolicy(Context(world, private, "none", 1, EmptyString, Anonymous), p)

C8_GetPolicyShowsNoMedicalText ==
    /\ \A p \in PolicyIDs :
          Exists(p) => "medicalConditions" \notin DOMAIN world[p]
    /\ \A p, q \in PolicyIDs :
          (Exists(p) /\ Exists(q) /\ SamePublicFields(p, q)) =>
              ReadPolicy(p).ret = [ReadPolicy(q).ret EXCEPT !.policyID = p]

(***************************************************************************)
(* C9  Round trip: GetPolicy after CreatePolicy, with no write to the id   *)
(* in between, returns the policyID, sumAssured, personName, dateOfBirth,  *)
(* gender, startDate, endDate, coPay, coverages, benefits and exclusions   *)
(* that were given, and claimedTotal 0.                                    *)
(***************************************************************************)
ProfileTextFields ==
    {"dateOfBirth", "gender", "startDate", "endDate", "coverages", "benefits",
     "exclusions"}
ProfileFields == ProfileTextFields \cup {"coPay"}

GotFreshPolicy ==
    /\ last.op = "GetPolicy"
    /\ last.resp.err = NoErr
    /\ hist[last.policyID].createdWith # Nil

\* the claim as it stands
C9_RoundTripEqualsInputs ==
    GotFreshPolicy =>
        LET given == hist[last.policyID].createdWith
            policy == last.resp.ret
        IN  /\ policy.policyID = last.policyID
            /\ policy.sumAssured = given.sumAssured
            /\ policy.personName = given.personName
            /\ \A f \in ProfileFields : policy[f] = given.profile[f]
            /\ policy.claimedTotal = 0

\* C9 as amended: the text fields come back as stored, equal to what was given
\* wherever that is valid UTF-8
AsGiven(got, given) == got = AsStored(given) /\ (ValidUTF8(given) => got = given)

C9_RoundTripAsStored ==
    GotFreshPolicy =>
        LET given == hist[last.policyID].createdWith
            policy == last.resp.ret
        IN  /\ AsGiven(policy.policyID, last.policyID)
            /\ policy.sumAssured = given.sumAssured
            /\ AsGiven(policy.personName, given.personName)
            /\ \A f \in ProfileTextFields : AsGiven(policy[f], given.profile[f])
            /\ policy.coPay = given.profile.coPay
            /\ policy.claimedTotal = 0

C9_Witness ==
    /\ GotFreshPolicy
    /\ ValidUTF8(hist[last.policyID].createdWith.personName)
    /\ last.resp.ret.personName = Alice
    /\ last.resp.ret.startDate # last.resp.ret.endDate

(***************************************************************************)
(* C11  The claimedTotal stored for a policy id is never negative and is   *)
(* never smaller after a step than it was before the step.                 *)
(***************************************************************************)
C11_ClaimedTotalNeverDecreases ==
    [][\A p \in PolicyIDs :
          Exists(p)' =>
              /\ StoredPolicy(p)'.claimedTotal >= 0
              /\ Exists(p) =>
                     StoredPolicy(p)'.claimedTotal >= StoredPolicy(p).claimedTotal]_vars

(***************************************************************************)
(* C13  Once a policy is stored, no operation other than CreatePolicy      *)
(* changes the sumAssured stored under its id.                             *)
(***************************************************************************)
C13_SumAssuredImmutable ==
    [][\A p \in PolicyIDs :
          (Exists(p) /\ last'.op # "CreatePolicy") =>
              /\ Exists(p)'
              /\ StoredPolicy(p)'.sumAssured = StoredPolicy(p).sumAssured]_vars

(***************************************************************************)
(* C15  With no failure of the store, SubmitClaim on an existing policy is *)
(* accepted exactly when claimedTotal + claimAmount <= sumAssured; an      *)
(* accepted claim stores that sum, a rejected one gets the coverage error  *)
(* and leaves claimedTotal as it was.                                      *)
(***************************************************************************)
C15_AcceptedExactlyWhenCovered ==
    [][(/\ last'.op = "SubmitClaim"
        /\ last'.args.fault = "none"
        /\ Exists(last'.policyID))
       => LET before == StoredPolicy(last'.policyID)
              total == before.claimedTotal + last'.args.claimAmount
          IN  /\ (last'.resp.err = NoErr) <=> (total <= before.sumAssured)
              /\ last'.resp.err = NoErr =>
                     UnmarshalPolicy(world'[last'.policyID]).claimedTotal = total
              /\ last'.resp.err # NoErr =>
                     /\ last'.resp.err = "claim amount exceeds sum assured"
                     /\ world' = world]_vars

(***************************************************************************)
(* C12  UpdatePolicy on a stored policy, the store not failing, succeeds,  *)
(* stores every supplied field in place of the old one and leaves          *)
(* claimedTotal as it was; on an id with no policy it fails with "policy   *)
(* does not exist" and writes nothing.                                     *)
(***************************************************************************)
IsUpdate_ == last'.op = "UpdatePolicy" /\ last'.args.fault = "none"

UpdateOfMissing_ ==
    /\ last'.resp.err = "policy does not exist"
    /\ Puts(last'.resp) = {}
    /\ last'.resp.writes = << >>
    /\ world' = world
    /\ private' = private

\* as the claim has it: the stored fields are the supplied values
C12_UpdateReplacesFields ==
    [][IsUpdate_ =>
          IF Exists(last'.policyID)
          THEN LET before == StoredPolicy(last'.policyID)
                   after == UnmarshalPolicy(world'[last'.policyID])
                   given == last'.args
               IN  /\ last'.resp.err = NoErr
                   /\ after.sumAssured = given.sumAssured
                   /\ after.personName = given.personName
                   /\ \A f \in ProfileFields : after[f] = given.profile[f]
                   /\ after.claimedTotal = before.claimedTotal
          ELSE UpdateOfMissing_]_vars

\* as amended: the text fields are stored as JSON holds them; policyID and
\* the policy's copy of medicalConditions stay as well
C12_UpdateStoresFields ==
    [][IsUpdate_ =>
          IF Exists(last'.policyID)
          THEN LET before == StoredPolicy(last'.policyID)
                   after == UnmarshalPolicy(world'[last'.policyID])
                   given == last'.args
               IN  /\ last'.resp.err = NoErr
                   /\ after.sumAssured = given.sumAssured
                   /\ AsGiven(after.personName, given.personName)
                   /\ \A f \in ProfileTextFields : AsGiven(after[f], given.profile[f])
                   /\ after.coPay = given.profile.coPay
                   /\ after.claimedTotal = before.claimedTotal
                   /\ after.policyID = before.policyID
                   /\ after.medicalConditions = before.medicalConditions
                   /\ private' = private
          ELSE UpdateOfMissing_]_vars

\* a policy with a claim on it was updated: the fields are new, the total stays
C12_Witness ==
    /\ last.op = "UpdatePolicy"
    /\ last.args.fault = "none"
    /\ last.resp.err = NoErr
    /\ last.args.profile = Profile2
    /\ StoredPolicy(last.policyID).gender = Profile2.gender
    /\ StoredPolicy(last.policyID).claimedTotal = hist[last.policyID].acceptedSum
    /\ hist[last.policyID].acceptedSum >= 1

(***************************************************************************)
(* C14  SubmitClaim returns no error only when it wrote both the claim     *)
(* record and the updated policy; otherwise it returns an error and the    *)
(* committed state has neither.                                            *)
(***************************************************************************)
C14_NoClaimPartiallyApplied ==
    [][last'.op = "SubmitClaim" =>
          LET resp == last'.resp
              p == last'.policyID
          IN  IF resp.err = NoErr
              THEN /\ WritesTo(resp, ClaimsCollection) # {}
                   /\ WritesTo(resp, Public) # {}
                   /\ private'[ClaimsCollection][p]
                          = resp.writes[CHOOSE i \in WritesTo(resp, ClaimsCollection) : TRUE].value
                   /\ world'[p] = resp.writes[CHOOSE i \in WritesTo(resp, Public) : TRUE].value
              ELSE world' = world /\ private' = private]_vars

(***************************************************************************)
(* C16  A SubmitClaim that succeeds changes, in the public record of its   *)
(* policy, claimedTotal only; the medical-conditions namespace, the access *)
(* logs and every record of the other policy ids stay as they were.        *)
(***************************************************************************)
C16_ClaimChangesOnlyTotal ==
    [][(last'.op = "SubmitClaim" /\ last'.resp.err = NoErr) =>
          LET p == last'.policyID
              before == StoredPolicy(p)
              after == UnmarshalPolicy(world'[p])
          IN  /\ \A f \in PolicyFields \ {"claimedTotal"} : after[f] = before[f]
              /\ DOMAIN world'[p] = DOMAIN world[p]
              /\ after.claimedTotal = Wrap(before.claimedTotal + last'.args.claimAmount)
              /\ \A q \in PolicyIDs \ {p} :
                     /\ world'[q] = world[q]
                     /\ private'[ClaimsCollection][q] = private[ClaimsCollection][q]
              /\ \A c \in Collections \ {ClaimsCollection} : private'[c] = private[c]]_vars

\* a claim was accepted on one of two stored policies
C16_Witness ==
    /\ last.op = "SubmitClaim"
    /\ last.resp.err = NoErr
    /\ \A q \in PolicyIDs : Exists(q)
    /\ StoredPolicy(last.policyID).claimedTotal = last.args.claimAmount
    /\ last.args.claimAmount # 0
    /\ StoredPolicy(last.policyID).personName # EmptyString

(***************************************************************************)
(* C17  CreatePolicy on an id that holds a policy, the store not failing,  *)
(* succeeds: the public record and the medical record under the id are     *)
(* those of the new inputs, and claimedTotal is 0 whatever it was.         *)
(***************************************************************************)
CreateAgain_ ==
    /\ last'.op = "CreatePolicy"
    /\ last'.args.fault = "none"
    /\ Exists(last'.policyID)

\* as the claim has it: the stored fields are the new inputs
C17_CreateAgainOverwrites ==
    [][CreateAgain_ =>
          LET p == last'.policyID
              after == UnmarshalPolicy(world'[p])
              given == last'.args
          IN  /\ last'.resp.err = NoErr
              /\ after.policyID = p
              /\ after.sumAssured = given.sumAssured
              /\ after.personName = given.personName
              /\ \A f \in ProfileFields : after[f] = given.profile[f]
              /\ after.claimedTotal = 0
              /\ private'[MedicalCollection][p]
                     = [medicalConditions |-> given.medicalConditions]]_vars

\* as amended: the text fields are stored as JSON holds them
C17_CreateAgainOverwritesAsStored ==
    [][CreateAgain_ =>
          LET p == last'.policyID
              after == UnmarshalPolicy(world'[p])
              given == last'.args
          IN  /\ last'.resp.err = NoErr
              /\ AsGiven(after.policyID, p)
              /\ after.sumAssured = given.sumAssured
              /\ AsGiven(after.personName, given.personName)
              /\ \A f \in ProfileTextFields : AsGiven(after[f], given.profile[f])
              /\ after.coPay = given.profile.coPay
              /\ after.claimedTotal = 0
              /\ AsGiven(MapGet(private'[MedicalCollection][p], "medicalConditions"),
                         given.medicalConditions)]_vars

\* a policy with an accepted claim was created again, with other fields
C17_Witness ==
    /\ last.op = "CreatePolicy"
    /\ last.args.fault = "none"
    /\ last.resp.err = NoErr
    /\ private[ClaimsCollection][last.policyID] # Nil
    /\ StoredPolicy(last.policyID).claimedTotal = 0
    /\ StoredPolicy(last.policyID).gender = Profile2.gender
    /\ hist[last.policyID].acceptedCount = 0

(***************************************************************************)
(* C18  The claims namespace holds one record per policy id: after an      *)
(* accepted SubmitClaim it is the record of that claim, whatever was       *)
(* stored before, and no other operation touches it; claimedTotal is the   *)
(* total, in the integer arithmetic of the contract, of all claims         *)
(* accepted since the policy was created.                                  *)
(***************************************************************************)
C18_ClaimRecordIsLatest ==
    [][IF last'.op = "SubmitClaim" /\ last'.resp.err = NoErr
       THEN LET p == last'.policyID
                record == private'[ClaimsCollection][p]
                given == last'.args
            IN  /\ DOMAIN record = {"policyID", "claimAmount", "timestamp"}
                                       \cup DOMAIN given.details
                /\ record.policyID = AsStored(p)
                /\ record.claimAmount = SprintfD(given.claimAmount)
                /\ record.timestamp = SprintfD(given.txTimestamp)
                /\ \A f \in DOMAIN given.details : record[f] = AsStored(given.details[f])
                /\ \A q \in PolicyIDs \ {p} :
                       private'[ClaimsCollection][q] = private[ClaimsCollection][q]
                /\ UnmarshalPolicy(world'[p]).claimedTotal = Wrap(hist'[p].acceptedSum)
       ELSE private'[ClaimsCollection] = private[ClaimsCollection]]_vars

\* two claims of different amounts were accepted: the record is the second
\* claim's, the total is of both
C18_Witness ==
    /\ last.op = "SubmitClaim"
    /\ last.resp.err = NoErr
    /\ hist[last.policyID].acceptedCount = 2
    /\ hist[last.policyID].acceptedSum - last.args.claimAmount # last.args.claimAmount
    /\ private[ClaimsCollection][last.policyID].claimAmount = SprintfD(last.args.claimAmount)
    /\ StoredPolicy(last.policyID).claimedTotal = hist[last.policyID].acceptedSum

(***************************************************************************)
(* C19  An AccessLogEntry, once written, is never changed or removed by a  *)
(* later operation (so that each successful read adds an entry to those    *)
(* already there).                                                         *)
(***************************************************************************)
C19_AccessLogAppendOnly ==
    [][\A p \in PolicyIDs :
          private[AccessLogCollection][p] # Nil =>
              private'[AccessLogCollection][p] = private[AccessLogCollection][p]]_vars

(***************************************************************************)
(* C20  In every committed state a policy is stored under an id exactly    *)
(* when a medical-conditions record is; and a doctor's GetMedicalConditions*)
(* (the store not failing) gets the not-found error exactly when no policy *)
(* is stored under the id.                                                 *)
(***************************************************************************)
C20_PolicyIffMedicalRecord ==
    /\ \A p \in PolicyIDs : Exists(p) <=> private[MedicalCollection][p] # Nil
    /\ (/\ last.op = "GetMedicalConditions"
        /\ last.args.fault = "none"
        /\ last.args.role = Doctor)
       => ((last.resp.err = "no sensitive data available for the policy")
              <=> ~Exists(last.policyID))

\* a CreatePolicy whose private write failed left neither record
C20_Witness ==
    /\ last.op = "CreatePolicy"
    /\ last.args.fault = MedicalCollection
    /\ last.resp.err # NoErr
    /\ WritesTo(last.resp, Public) # {}
    /\ ~Exists(last.policyID)
    /\ private[MedicalCollection][last.policyID] = Nil

(***************************************************************************)
(* C21  SubmitClaim accepts a claim only if claimedTotal + claimAmount,    *)
(* as numbers and not modulo 2^IntBits, is at most sumAssured.             *)
(***************************************************************************)
C21_NoBypassByWrapAround ==
    [][(last'.op = "SubmitClaim" /\ last'.resp.err = NoErr) =>
          StoredPolicy(last'.policyID).claimedTotal + last'.args.claimAmount
              <= StoredPolicy(last'.policyID).sumAssured]_vars

(***************************************************************************)
(* C22  Patient access follows the personName now stored.  When            *)
(* UpdatePolicy, which checks no authorisation, has replaced the           *)
(* personName A a policy was created with by B, GetMedicalConditions by    *)
(* patient B succeeds and returns the medical conditions stored at         *)
(* creation, and by patient A fails as unauthorised; and every patient's   *)
(* read succeeds exactly when the caller is the personName stored.         *)
(***************************************************************************)
ReadAsPatient_(clientID, policyID) ==
    GetMedicalConditions(Context(world', private', "none", 1, clientID, Patient), policyID)

C22_PatientAccessFollowsPersonName ==
    [][/\ (/\ last'.op = "UpdatePolicy"
           /\ last'.args.fault = "none"
           /\ Exists(last'.policyID)
           /\ hist[last'.policyID].createdWith # Nil
           /\ last'.args.personName # StoredPolicy(last'.policyID).personName
           /\ ValidUTF8(last'.args.personName))
          => LET p == last'.policyID
                 A == StoredPolicy(p).personName
                 B == last'.args.personName
             IN  /\ last'.resp.err = NoErr
                 /\ ReadAsPatient_(B, p).err = NoErr
                 /\ ReadAsPatient_(B, p).ret = AsStored(hist[p].medicalGiven)
                 /\ ReadAsPatient_(B, p).ret
                        = MapGet(private[MedicalCollection][p], "medicalConditions")
                 /\ ReadAsPatient_(A, p).err = NotAuthorised
                 /\ ReadAsPatient_(A, p).ret = EmptyString
       /\ (/\ IsRead_
           /\ last'.args.role = Patient
           /\ last'.args.fault = "none"
           /\ Exists(last'.policyID))
          => IF last'.args.clientID = StoredPolicy(last'.policyID).personName
             THEN /\ last'.resp.err = NoErr
                  /\ last'.resp.ret = AsStored(hist[last'.policyID].medicalGiven)
             ELSE /\ last'.resp.err = NotAuthorised
                  /\ last'.resp.ret = EmptyString]_vars

\* the personName was changed by UpdatePolicy, and the new person read the
\* medical conditions as a patient
C22_Witness ==
    /\ IsRead
    /\ last.args.role = Patient
    /\ last.args.fault = "none"
    /\ last.args.clientID = Bob
    /\ hist[last.policyID].updated
    /\ StoredPolicy(last.policyID).personName = Bob
    /\ last.resp.err = NoErr
    /\ last.resp.ret = << "asthma" >>

====
